---- MODULE Spec2Model ----
(* Model of car_demo::PriusControllerRos (PriusControllerRos.cpp): the three   *)
(* session flags, the cached odometry, and the handlers the ROS runtime        *)
(* invokes one at a time: advance() (the control tick), pathCallback(),        *)
(* priusStateCallback(), currentStateRequestService() and                      *)
(* controllerCommandService().  The path tracker is an external object: its    *)
(* advance() result and its steering/velocity outputs are inputs chosen        *)
(* nondeterministically; the calls a handler makes on it are recorded.         *)
EXTENDS Integers, Sequences, FiniteSets, TLC

(* ---------------------------------------------------------------- bounds -- *)
MaxEvents == 6          \* handler invocations in one run
MaxSegments == 2        \* longest plan message delivered
MaxOdom == 1            \* pose and twist readings 0..MaxOdom
MaxTrackerOut == 1      \* tracker steering / velocity outputs 0..MaxTrackerOut

(* --------------------------------------------------------------- inputs -- *)
Segments == {1, 2}
\* path messages: every segment list of length 0..MaxSegments
Paths == UNION {[1..n -> Segments] : n \in 0..MaxSegments}
Commands == {"StartTracking", "StopTracking", "Unknown"}
\* nav_msgs::Odometry values: pose.pose and twist.twist
Odometries == [pose : 0..MaxOdom, twist : 0..MaxOdom]
\* the default-constructed message priusState_ holds before any telemetry
DefaultOdometry == [pose |-> 0, twist |-> 0]
NoOdometry == [pose |-> -1, twist |-> -1]
TrackerOutputs == 0..MaxTrackerOut
NoPath == <<0>>

(* ------------------------------------------------------------- commands -- *)
\* prius_msgs::PriusControl; steer_ and throttle_ in hundredths
\* getFailProofControlCommand(): forward gear, neutral steering, zero throttle
FailProofControlCommand == [gear |-> "FORWARD", steer |-> 0, throttle |-> 0]
\* the command advance() builds at lines 87-89: FORWARD, 0.8, 0.02
control == [gear |-> "FORWARD", steer |-> 80, throttle |-> 2]

VARIABLES
  planReceived_,                  \* bool member
  currentlyExecutingPlan_,        \* bool member
  receivedStartTrackingCommand_,  \* bool member
  publishTrackingStatus_,         \* bool member
  priusState_,                    \* cached odometry
  trackerPath,                    \* the path held by pathTracker_
  handler,                        \* the handler that ran last
  pathMsg,                        \* the message the last pathCallback got
  odomMsg,                        \* the message the last priusStateCallback got
  command,                        \* the request the last command service got
  published,                      \* commands the last handler published
  priusControls,                  \* everything published on /prius_controls so far
  trackerCalls,                   \* calls the last handler made on pathTracker_, with their results
  log,                            \* ROS_* diagnostics of the last handler
  res,                            \* response of the last service call
  recovery,                       \* history: the plan/start cycle after a tracker failure
  nEvents                         \* handler invocations so far

session == <<planReceived_, currentlyExecutingPlan_, receivedStartTrackingCommand_,
             publishTrackingStatus_, trackerPath>>
vars == <<planReceived_, currentlyExecutingPlan_, receivedStartTrackingCommand_,
          publishTrackingStatus_, priusState_, trackerPath, handler, pathMsg,
          odomMsg, command, published, priusControls, trackerCalls, log, res,
          recovery, nEvents>>

\* the session status the three flags encode (readyToTrack of advance() is Tracking)
Status ==
  IF planReceived_ /\ receivedStartTrackingCommand_ THEN "Tracking"
  ELSE IF planReceived_ THEN "PlanStaged"
  ELSE "Idle"

(* ----------------------------------------------------------------- Init -- *)
\* the flags' default member initializers: the session starts Idle
InitSession ==
  /\ planReceived_ = FALSE
  /\ currentlyExecutingPlan_ = FALSE
  /\ receivedStartTrackingCommand_ = FALSE
  /\ publishTrackingStatus_ = FALSE

Init ==
  /\ InitSession
  /\ priusState_ = DefaultOdometry
  /\ trackerPath = NoPath
  /\ handler = "none"
  /\ pathMsg = NoPath
  /\ odomMsg = NoOdometry
  /\ command = "none"
  /\ published = <<>>
  /\ priusControls = <<>>
  /\ trackerCalls = <<>>
  /\ log = <<>>
  /\ res = [kind |-> "none"]
  /\ recovery = "none"
  /\ nEvents = 0

\* every handler invocation is counted and leaves its name behind
Enter(name) ==
  /\ nEvents < MaxEvents
  /\ nEvents' = nEvents + 1
  /\ handler' = name

\* what the handler published goes out on the topic, in order
Leave == priusControls' = priusControls \o published'

(* --------------------------------------------------------- stopTracking -- *)
\* a plausible slip: the plan flag survives the stop
stopTracking_keepsPlan(before) ==
  /\ currentlyExecutingPlan_' = FALSE
  /\ receivedStartTrackingCommand_' = FALSE
  /\ planReceived_' = planReceived_
  /\ trackerCalls' = Append(before, <<"stopTracking">>)

\* a plausible slip: the tracker is not told to stop
stopTracking_noTrackerCall(before) ==
  /\ currentlyExecutingPlan_' = FALSE
  /\ receivedStartTrackingCommand_' = FALSE
  /\ planReceived_' = FALSE
  /\ trackerCalls' = before

\* a plausible slip: only the executing flag is cleared
stopTracking_onlyExecutingFlag(before) ==
  /\ currentlyExecutingPlan_' = FALSE
  /\ receivedStartTrackingCommand_' = receivedStartTrackingCommand_
  /\ planReceived_' = planReceived_
  /\ trackerCalls' = Append(before, <<"stopTracking">>)

\* lines 94-100; before is the list of tracker calls the caller already made
stopTracking(before) ==
  /\ currentlyExecutingPlan_' = FALSE
  /\ receivedStartTrackingCommand_' = FALSE
  /\ planReceived_' = FALSE
  /\ trackerCalls' = Append(before, <<"stopTracking">>)

(* -------------------------------------------------------------- advance -- *)
\* a plausible slip: the start command is not required
readyToTrack_planOnly == planReceived_

\* line 68
readyToTrack == planReceived_ /\ receivedStartTrackingCommand_

\* a plausible slip: the failure branch returns before publishing
advance_silentOnFailure(ok, steering, velocity) ==
  /\ Enter("advance")
  /\ IF ~readyToTrack
       THEN /\ published' = <<FailProofControlCommand>>
            /\ trackerCalls' = <<>>
            /\ log' = <<>>
            /\ recovery' = recovery
            /\ UNCHANGED <<planReceived_, currentlyExecutingPlan_,
                           receivedStartTrackingCommand_, publishTrackingStatus_>>
       ELSE IF ~ok
         THEN /\ stopTracking(<<(<<"advance", FALSE>>)>>)
              /\ publishTrackingStatus_' = TRUE
              /\ log' = <<"ERROR Failed to advance path tracker.",
                          "INFO PriusControllerRos stopped tracking">>
              /\ recovery' = "failed"
              /\ published' = <<>>
         ELSE /\ trackerCalls' = << <<"advance", TRUE>>,
                                    <<"getSteeringAngle", steering>>,
                                    <<"getLongitudinalVelocity", velocity>> >>
              /\ log' = <<>>
              /\ recovery' = recovery
              /\ published' = <<control>>
              /\ UNCHANGED <<planReceived_, currentlyExecutingPlan_,
                             receivedStartTrackingCommand_, publishTrackingStatus_>>
  /\ Leave
  /\ UNCHANGED <<priusState_, trackerPath, pathMsg, odomMsg, command, res>>

\* the tick: ok is the result of pathTracker_->advance(), steering and
\* velocity are what its getters return
advance(ok, steering, velocity) ==
  /\ Enter("advance")
  /\ IF ~readyToTrack
       THEN /\ published' = <<FailProofControlCommand>>
            /\ trackerCalls' = <<>>
            /\ log' = <<>>
            /\ recovery' = recovery
            /\ UNCHANGED <<planReceived_, currentlyExecutingPlan_,
                           receivedStartTrackingCommand_, publishTrackingStatus_>>
       ELSE IF ~ok
         THEN \* controlCommand takes the fail-proof command, but control is what is published
              /\ stopTracking(<<(<<"advance", FALSE>>)>>)
              /\ publishTrackingStatus_' = TRUE
              /\ log' = <<"ERROR Failed to advance path tracker.",
                          "INFO PriusControllerRos stopped tracking">>
              /\ recovery' = "failed"
              /\ published' = <<control>>
         ELSE /\ trackerCalls' = << <<"advance", TRUE>>,
                                    <<"getSteeringAngle", steering>>,
                                    <<"getLongitudinalVelocity", velocity>> >>
              /\ log' = <<>>
              /\ recovery' = recovery
              /\ published' = <<control>>
              /\ UNCHANGED <<planReceived_, currentlyExecutingPlan_,
                             receivedStartTrackingCommand_, publishTrackingStatus_>>
  /\ Leave
  /\ UNCHANGED <<priusState_, trackerPath, pathMsg, odomMsg, command, res>>

(* --------------------------------------------------------- pathCallback -- *)
\* a plausible slip: the gate never closes
planRejectedWhileExecuting_never == FALSE

\* line 126
planRejectedWhileExecuting == currentlyExecutingPlan_

\* a plausible slip: the emptiness test is missing
pathIsEmpty_never(path) == FALSE

\* line 131: path.segment_.empty()
pathIsEmpty(path) == Len(path) = 0

WarnTrackingPrevious == "WARN Robot is tracking the previous plan. Rejecting this one."
WarnEmptyPlan == "WARN Path follower received an empty plan!"
InfoPlanReceived == "INFO PathFollowerRos subscriber received a plan"

pathCallback(msg) ==
  /\ Enter("pathCallback")
  /\ pathMsg' = msg
  /\ published' = <<>>
  /\ trackerCalls' = <<>>
  /\ IF planRejectedWhileExecuting
       THEN /\ log' = <<WarnTrackingPrevious>>
            /\ recovery' = recovery
            /\ UNCHANGED planReceived_
       ELSE IF pathIsEmpty(msg)
         THEN /\ log' = <<WarnEmptyPlan>>
              /\ recovery' = recovery
              /\ UNCHANGED planReceived_
         ELSE /\ log' = <<InfoPlanReceived>>
              /\ recovery' = (IF recovery = "failed" THEN "staged" ELSE recovery)
              /\ planReceived_' = TRUE
  \* the converted path is a local: nothing hands it to pathTracker_
  /\ Leave
  /\ UNCHANGED <<currentlyExecutingPlan_, receivedStartTrackingCommand_,
                 publishTrackingStatus_, priusState_, trackerPath, odomMsg, command, res>>

(* ------------------------------------------------------------ telemetry -- *)
priusStateCallback(odometry) ==
  /\ Enter("priusStateCallback")
  /\ odomMsg' = odometry
  /\ priusState_' = odometry
  /\ published' = <<>>
  /\ trackerCalls' = <<>>
  /\ log' = <<>>
  /\ Leave
  /\ UNCHANGED <<planReceived_, currentlyExecutingPlan_, receivedStartTrackingCommand_,
                 publishTrackingStatus_, trackerPath, pathMsg, command, res, recovery>>

\* a plausible slip: the twist is copied into the pose field
currentStateRequestService_twistAsPose ==
  /\ Enter("currentStateRequestService")
  /\ res' = [kind |-> "state", pose |-> priusState_.twist, twist |-> priusState_.twist,
             return |-> TRUE]
  /\ published' = <<>>
  /\ trackerCalls' = <<>>
  /\ log' = <<>>
  /\ Leave
  /\ UNCHANGED <<planReceived_, currentlyExecutingPlan_, receivedStartTrackingCommand_,
                 publishTrackingStatus_, priusState_, trackerPath, pathMsg, odomMsg,
                 command, recovery>>

\* lines 147-154
currentStateRequestService ==
  /\ Enter("currentStateRequestService")
  /\ res' = [kind |-> "state", pose |-> priusState_.pose, twist |-> priusState_.twist,
             return |-> TRUE]
  /\ published' = <<>>
  /\ trackerCalls' = <<>>
  /\ log' = <<>>
  /\ Leave
  /\ UNCHANGED <<planReceived_, currentlyExecutingPlan_, receivedStartTrackingCommand_,
                 publishTrackingStatus_, priusState_, trackerPath, pathMsg, odomMsg,
                 command, recovery>>

(* ------------------------------------------------------ command service -- *)
WarnNoPlan == "WARN Rejecting the start command since the robot hasn't received a plan yet"
WarnAlreadyExecuting == "WARN Rejecting the start command since the robot is already executing another plan"
WarnStartRequested == "WARN Start tracking requested"
WarnNotTracking == "WARN Not tracking any plans at the moment, cannot stop"
WarnUnknownCommand == "WARN PATH FOLLOWER ROS: Unknown command"
InfoStopped == "INFO PriusControllerRos stopped tracking"

\* a plausible slip: only one of the two flags is raised
startTracking_oneFlag ==
  /\ currentlyExecutingPlan_' = TRUE
  /\ receivedStartTrackingCommand_' = receivedStartTrackingCommand_

\* lines 193-194
startTracking ==
  /\ currentlyExecutingPlan_' = TRUE
  /\ receivedStartTrackingCommand_' = TRUE

\* lines 177-195
processStartTrackingCommand ==
  IF ~planReceived_
    THEN /\ log' = <<WarnNoPlan>>
         /\ recovery' = recovery
         /\ UNCHANGED <<currentlyExecutingPlan_, receivedStartTrackingCommand_>>
    ELSE IF currentlyExecutingPlan_
      THEN /\ log' = <<WarnAlreadyExecuting>>
           /\ recovery' = recovery
           /\ UNCHANGED <<currentlyExecutingPlan_, receivedStartTrackingCommand_>>
      ELSE /\ log' = <<WarnStartRequested>>
           /\ recovery' = (IF recovery = "staged" THEN "none" ELSE recovery)
           /\ startTracking

\* a plausible slip: the wrong flag guards the stop
abortRejected_wrongFlag == ~planReceived_

\* a plausible slip: the guard is missing
abortRejected_never == FALSE

\* line 198
abortRejected == ~currentlyExecutingPlan_

\* lines 196-204
processAbortTrackingCommand ==
  IF abortRejected
    THEN /\ log' = <<WarnNotTracking>>
         /\ trackerCalls' = <<>>
         /\ UNCHANGED <<planReceived_, currentlyExecutingPlan_,
                        receivedStartTrackingCommand_>>
    ELSE /\ log' = <<InfoStopped>>
         /\ stopTracking(<<>>)

\* a plausible slip: the acknowledgement reports whether the transition happened
controllerCommandServiceReturn_reportsSuccess ==
  log' \in {<<WarnStartRequested>>, <<InfoStopped>>}

\* line 174
controllerCommandServiceReturn == TRUE

\* lines 155-175
controllerCommandService(cmd) ==
  /\ Enter("controllerCommandService")
  /\ command' = cmd
  /\ published' = <<>>
  /\ CASE cmd = "StartTracking" ->
            /\ processStartTrackingCommand
            /\ trackerCalls' = <<>>
            /\ UNCHANGED planReceived_
       [] cmd = "StopTracking" ->
            /\ processAbortTrackingCommand
            /\ recovery' = recovery
       [] OTHER ->
            /\ log' = <<WarnUnknownCommand>>
            /\ trackerCalls' = <<>>
            /\ recovery' = recovery
            /\ UNCHANGED <<planReceived_, currentlyExecutingPlan_,
                           receivedStartTrackingCommand_>>
  /\ res' = [kind |-> "command", return |-> controllerCommandServiceReturn]
  /\ Leave
  /\ UNCHANGED <<publishTrackingStatus_, priusState_, trackerPath, pathMsg, odomMsg>>

(* ----------------------------------------------------------------- Spec -- *)
Tick == \E ok \in BOOLEAN, steering, velocity \in TrackerOutputs : advance(ok, steering, velocity)
PlanArrives == \E msg \in Paths : pathCallback(msg)
TelemetryArrives == \E odometry \in Odometries : priusStateCallback(odometry)
StateQuery == currentStateRequestService
CommandArrives == \E cmd \in Commands : controllerCommandService(cmd)

Next ==
  \/ Tick
  \/ PlanArrives
  \/ TelemetryArrives
  \/ StateQuery
  \/ CommandArrives

Spec == Init /\ [][Next]_vars

(* --------------------------------------------------------------- claims -- *)
\* every step is one handler invocation; handler' names it
Ticked == handler' = "advance"
PlanSubmitted == handler' = "pathCallback"
Commanded(cmd) == handler' = "controllerCommandService" /\ command' = cmd
Idle == ~planReceived_ /\ ~currentlyExecutingPlan_ /\ ~receivedStartTrackingCommand_
\* the number of calls of the tracker method name among calls
RECURSIVE CountCalls(_, _)
CountCalls(calls, name) ==
  IF calls = <<>> THEN 0
  ELSE (IF Head(calls)[1] = name THEN 1 ELSE 0) + CountCalls(Tail(calls), name)
\* the tick called pathTracker_->advance() and it returned false
AdvanceFailed == Ticked /\ trackerCalls' # <<>> /\ Head(trackerCalls') = <<"advance", FALSE>>
PlanRejected == log' \in {<<WarnTrackingPrevious>>, <<WarnEmptyPlan>>}

\* C1: a tick taken while the status is not Tracking publishes the fail-safe
\* command, whatever events came before it.
C1_TickNotTrackingPublishesFailSafe ==
  [][(Ticked /\ Status # "Tracking") => published' = <<FailProofControlCommand>>]_vars

C1_Witness ==
  /\ handler = "advance"
  /\ Status = "PlanStaged"
  /\ published = <<FailProofControlCommand>>

\* C2: when the tracker's advance() returns false on a tick taken in Tracking,
\* the command that tick publishes is the fail-safe command.
C2_FailedAdvancePublishesFailSafe ==
  [][(Status = "Tracking" /\ AdvanceFailed) => published' = <<FailProofControlCommand>>]_vars

\* C3: a failed advance() leaves the session Idle; from then on every tick
\* publishes the fail-safe command until a new plan has been accepted and then a
\* StartTracking accepted, and a StartTracking alone does not resume tracking.
C3_FailureNeedsNewPlanStartCycle ==
  [][/\ AdvanceFailed => Idle'
     /\ (recovery # "none" /\ Ticked) => published' = <<FailProofControlCommand>>
     /\ (recovery = "failed" /\ Commanded("StartTracking")) =>
          (Idle' /\ log' = <<WarnNoPlan>>)]_vars

C3_Witness ==
  /\ recovery = "failed"
  /\ handler = "advance"
  /\ published = <<FailProofControlCommand>>
  /\ Idle

\* C4 as stated: a plan submitted in PlanStaged or in Tracking is rejected and
\* changes nothing.
C4_PlanRejectedUnlessIdle ==
  [][(PlanSubmitted /\ Status \in {"PlanStaged", "Tracking"}) =>
       (PlanRejected /\ UNCHANGED session)]_vars

\* C4 amended: a plan submitted in Tracking is rejected and changes nothing; a
\* non-empty plan submitted in PlanStaged is accepted and the status stays
\* PlanStaged.
C4_PlanRejectedWhileTracking ==
  [][/\ (PlanSubmitted /\ Status = "Tracking") =>
          (log' = <<WarnTrackingPrevious>> /\ UNCHANGED session)
     /\ (PlanSubmitted /\ Status = "PlanStaged" /\ pathMsg' # <<>>) =>
          (log' = <<InfoPlanReceived>> /\ Status' = "PlanStaged")]_vars

C4_Witness ==
  /\ handler = "pathCallback"
  /\ pathMsg # <<>>
  /\ Status = "Tracking"
  /\ log = <<WarnTrackingPrevious>>

\* C5: a plan with zero segments is rejected in every status and leaves the
\* status and all session flags unchanged.
C5_EmptyPlanRejected ==
  [][(PlanSubmitted /\ pathMsg' = <<>>) => (PlanRejected /\ UNCHANGED session)]_vars

C5_Witness ==
  /\ handler = "pathCallback"
  /\ pathMsg = <<>>
  /\ log = <<WarnEmptyPlan>>
  /\ Idle

\* C6: a non-empty plan submitted in Idle is accepted: it becomes the plan the
\* tracker will follow and the status becomes PlanStaged.
C6_AcceptedPlanIsStored ==
  [][(PlanSubmitted /\ Status = "Idle" /\ pathMsg' # <<>>) =>
       (trackerPath' = pathMsg' /\ Status' = "PlanStaged")]_vars

\* C7: StartTracking in PlanStaged moves the session to Tracking, and a tick
\* that follows it directly calls the tracker's advance().
C7_StartThenTickAdvances ==
  [][/\ (Status = "PlanStaged" /\ Commanded("StartTracking")) => Status' = "Tracking"
     /\ (/\ handler = "controllerCommandService"
         /\ command = "StartTracking"
         /\ log = <<WarnStartRequested>>
         /\ Ticked) =>
          (trackerCalls' # <<>> /\ Head(trackerCalls')[1] = "advance")]_vars

C7_Witness ==
  /\ handler = "controllerCommandService"
  /\ command = "StartTracking"
  /\ log = <<WarnStartRequested>>
  /\ Status = "Tracking"

\* C8: a rejected command (StartTracking in Idle or Tracking, StopTracking in
\* Idle or PlanStaged, Unknown anywhere) changes no session state and calls
\* nothing on the tracker.
C8_RejectedCommandChangesNothing ==
  [][(\/ Commanded("StartTracking") /\ Status \in {"Idle", "Tracking"}
      \/ Commanded("StopTracking") /\ Status \in {"Idle", "PlanStaged"}
      \/ Commanded("Unknown")) =>
       (UNCHANGED session /\ trackerCalls' = <<>>)]_vars

C8_Witness ==
  /\ handler = "controllerCommandService"
  /\ command = "StopTracking"
  /\ log = <<WarnNotTracking>>
  /\ Status = "PlanStaged"

\* C9: StopTracking in Tracking leaves the session Idle with the three flags
\* cleared and calls the tracker's stopTracking() exactly once.
C9_StopResetsCleanly ==
  [][(Status = "Tracking" /\ Commanded("StopTracking")) =>
       (Idle' /\ trackerCalls' = << <<"stopTracking">> >>)]_vars

C9_Witness ==
  /\ handler = "controllerCommandService"
  /\ command = "StopTracking"
  /\ trackerCalls = << <<"stopTracking">> >>
  /\ Idle

\* C10: a handler calls the tracker's stopTracking() once when it takes the
\* session from Tracking to Idle and not at all otherwise.
C10_StopTrackingOncePerTransition ==
  [][CountCalls(trackerCalls', "stopTracking") =
       (IF Status = "Tracking" /\ Status' = "Idle" THEN 1 ELSE 0)]_vars

C10_Witness ==
  /\ handler = "advance"
  /\ trackerCalls = << <<"advance", FALSE>>, <<"stopTracking">> >>
  /\ Status = "Idle"

\* the tick called pathTracker_->advance() and it returned true
AdvanceSucceeded == Ticked /\ trackerCalls' # <<>> /\ Head(trackerCalls') = <<"advance", TRUE>>
\* the steering and velocity the tracker reported to a successful tick
Reported(calls) == <<calls[2][2], calls[3][2]>>
LastTickSucceeded ==
  handler = "advance" /\ trackerCalls # <<>> /\ Head(trackerCalls) = <<"advance", TRUE>>

\* C11: a successful tick in Tracking publishes a command computed from the
\* steering and velocity the tracker reported on that tick: it is not the
\* fail-safe command, and two successful ticks in a row whose tracker outputs
\* differ in both steering and velocity do not publish one and the same command.
C11_CommandFollowsTrackerOutput ==
  [][AdvanceSucceeded =>
       /\ published' # <<FailProofControlCommand>>
       /\ (/\ LastTickSucceeded
           /\ Reported(trackerCalls)[1] # Reported(trackerCalls')[1]
           /\ Reported(trackerCalls)[2] # Reported(trackerCalls')[2]) =>
            published' # published]_vars

\* C12: every tick publishes exactly one control command, on every branch,
\* and the tick is enabled in every reachable state.
C12_TickPublishesExactlyOne ==
  [][/\ nEvents < MaxEvents => ENABLED Tick
     /\ Ticked => (Len(published') = 1 /\ Len(priusControls') = Len(priusControls) + 1)]_vars

C12_Witness ==
  /\ handler = "advance"
  /\ trackerCalls # <<>>
  /\ Head(trackerCalls) = <<"advance", FALSE>>
  /\ Len(published) = 1
  /\ Len(priusControls) >= 2

\* C13: the tick that directly follows an accepted StopTracking publishes the
\* fail-safe command without calling advance(), and a command handled after a
\* tick leaves everything already published as it was.
C13_EventsTakeEffectInOrder ==
  [][/\ (/\ handler = "controllerCommandService"
         /\ command = "StopTracking"
         /\ log = <<InfoStopped>>
         /\ Ticked) =>
          (published' = <<FailProofControlCommand>> /\ trackerCalls' = <<>>)
     /\ (handler = "advance" /\ handler' = "controllerCommandService") =>
          (priusControls' = priusControls /\ priusControls # <<>>
           /\ priusControls[Len(priusControls)] = published[1])]_vars

C13_Witness ==
  /\ handler = "advance"
  /\ command = "StopTracking"
  /\ published = <<FailProofControlCommand>>
  /\ Len(priusControls) >= 2
  /\ priusControls[Len(priusControls) - 1] = control
  /\ Idle

\* C14: the command service returns true for every request, in every status,
\* whether or not the requested transition happened.
C14_CommandAlwaysAcknowledged ==
  [][handler' = "controllerCommandService" =>
       res' = [kind |-> "command", return |-> TRUE]]_vars

C14_Witness ==
  /\ handler = "controllerCommandService"
  /\ command = "StartTracking"
  /\ log = <<WarnNoPlan>>
  /\ res = [kind |-> "command", return |-> TRUE]

StateQueried == handler' = "currentStateRequestService"
TelemetryUpdated == handler' = "priusStateCallback"

\* C15: a state query returns the pose and twist of the most recent telemetry
\* update in every status; plan, command and tick events leave the cached
\* telemetry alone, and telemetry updates and queries leave the session alone.
C15_QueryReturnsLatestTelemetry ==
  [][/\ (StateQueried /\ odomMsg # NoOdometry) =>
          (res'.pose = odomMsg.pose /\ res'.twist = odomMsg.twist /\ res'.return)
     /\ TelemetryUpdated => priusState_' = odomMsg'
     /\ (PlanSubmitted \/ Ticked \/ handler' = "controllerCommandService") =>
          (priusState_' = priusState_ /\ odomMsg' = odomMsg)
     /\ (StateQueried \/ TelemetryUpdated) => (Status' = Status /\ UNCHANGED session)]_vars

C15_Witness ==
  /\ handler = "currentStateRequestService"
  /\ odomMsg = [pose |-> 1, twist |-> 0]
  /\ res = [kind |-> "state", pose |-> 1, twist |-> 0, return |-> TRUE]
  /\ Status = "Tracking"

\* C16: a state query made before any telemetry has been received reports that
\* no state is available instead of returning a pose and twist.
C16_QueryBeforeTelemetryIsEmpty ==
  [][(StateQueried /\ odomMsg = NoOdometry) => ~res'.return]_vars

\* C17: the status changes only Idle -> PlanStaged (by plan intake),
\* PlanStaged -> Tracking (by StartTracking) and Tracking -> Idle (by
\* StopTracking or by a tick whose advance() failed); no handler leaves the
\* session in any other status.
C17_OnlyLegalTransitions ==
  [][/\ Status' \in {"Idle", "PlanStaged", "Tracking"}
     /\ Status' # Status =>
          \/ Status = "Idle" /\ Status' = "PlanStaged" /\ PlanSubmitted
          \/ Status = "PlanStaged" /\ Status' = "Tracking" /\ Commanded("StartTracking")
          \/ Status = "Tracking" /\ Status' = "Idle"
               /\ (Commanded("StopTracking") \/ AdvanceFailed)]_vars

C17_Witness ==
  /\ handler = "pathCallback"
  /\ recovery = "staged"
  /\ Status = "PlanStaged"

\* C18: a tick in Idle or PlanStaged changes no session state and calls
\* nothing on the tracker; a tick in Tracking calls advance() exactly once and
\* first, reads steering and velocity only when that call returned true, and a
\* successful tick leaves the status Tracking.
C18_TrackerDrivenOnlyWhileTracking ==
  [][Ticked =>
       IF Status # "Tracking"
         THEN UNCHANGED session /\ trackerCalls' = <<>>
         ELSE /\ CountCalls(trackerCalls', "advance") = 1
              /\ Head(trackerCalls')[1] = "advance"
              /\ (CountCalls(trackerCalls', "getSteeringAngle")
                    + CountCalls(trackerCalls', "getLongitudinalVelocity") > 0) =>
                   Head(trackerCalls') = <<"advance", TRUE>>
              /\ AdvanceSucceeded =>
                   (/\ Status' = "Tracking"
                    /\ CountCalls(trackerCalls', "getSteeringAngle") = 1
                    /\ CountCalls(trackerCalls', "getLongitudinalVelocity") = 1)]_vars

C18_Witness ==
  /\ handler = "advance"
  /\ Len(trackerCalls) = 3
  /\ trackerCalls[1] = <<"advance", TRUE>>
  /\ Status = "Tracking"

\* C19: between handler invocations currentlyExecutingPlan_ equals
\* receivedStartTrackingCommand_ and implies planReceived_, so the flags only
\* take the three combinations that stand for Idle, PlanStaged and Tracking.
C19_FlagsInSync ==
  /\ currentlyExecutingPlan_ = receivedStartTrackingCommand_
  /\ currentlyExecutingPlan_ => planReceived_

C19_Witness ==
  /\ handler = "controllerCommandService"
  /\ planReceived_
  /\ currentlyExecutingPlan_
  /\ receivedStartTrackingCommand_
====
